---- MODULE Spec2Model ----
(***************************************************************************)
(* Model of api/make-video.py: the POST handler make_video, the uploader   *)
(* upload_to_wordpress and the placeholder generator create_title_image.   *)
(* A request is a process walking through the handler; the temp directory  *)
(* is the only state two requests share.                                   *)
(***************************************************************************)
EXTENDS Integers, Sequences, FiniteSets, TLC

VARIABLES
    WP_BASE_URL,      \* module global, line 15 (after rstrip("/"))
    WP_USER,          \* module global, line 16
    WP_APP_PASSWORD,  \* module global, line 17
    MAX_IMAGES,       \* module global, line 20
    body,             \* body[r]: the HTTP body request r was sent with
    pc,               \* pc[r]: position of request r in make_video
    fs,               \* the temp directory: path -> content of the file
    image_files,      \* image_files[r]: the local list of lines 58-74
    idx,              \* idx[r]: how many elements of images[:MAX_IMAGES] the loop of line 61 has consumed
    fetched,          \* fetched[r]: the calls of requests.get of line 63, in order: URL, loop index, success
    placeholders,     \* placeholders[r]: number of calls of create_title_image
    clips,            \* clips[r]: the durations of the clips of lines 82-85
    total_duration,   \* total_duration[r]: audio_clip.duration of line 79
    videoSrc,         \* videoSrc[r]: the files the video was built from, each with the request that wrote it
    video_filename,   \* video_filename[r]: line 89, NoPath while unset
    uploadCalls,      \* uploadCalls[r]: calls of upload_to_wordpress
    uploadOutcome,    \* uploadOutcome[r]: how the call of line 108 ended
    httpPosts,        \* httpPosts[r]: requests.post calls of line 145
    opened,           \* opened[r]: files opened by line 144
    wp_url,           \* wp_url[r]: line 108
    cidx,             \* cidx[r]: images the loop of line 115 has consumed
    delFailed,        \* delFailed[r]: paths whose os.remove raised
    removed,          \* removed[r]: paths os.remove was called on and succeeded
    touched,          \* touched[r]: paths request r wrote, read or deleted
    response          \* response[r]: what the caller got

vars == <<WP_BASE_URL, WP_USER, WP_APP_PASSWORD, MAX_IMAGES, body, pc, fs,
          image_files, idx, fetched, placeholders, clips, total_duration,
          videoSrc, video_filename, uploadCalls, uploadOutcome, httpPosts,
          opened, wp_url, cidx, delFailed, removed, touched, response>>

(***************************************************************************)
(* Bounds of the model.                                                    *)
(***************************************************************************)
MaxContentLen == 2    \* longest content string
MaxUrls == 3          \* longest images list
MaxCap == 2           \* largest MAX_IMAGES
MaxDuration == 2      \* longest audio duration, in time units
ConcMaxUrls == 1      \* longest images list of two concurrent requests

Reqs == {1, 2}

Max(a, b) == IF a >= b THEN a ELSE b
Min(a, b) == IF a <= b THEN a ELSE b

(***************************************************************************)
(* Strings are sequences of characters.                                    *)
(***************************************************************************)
Chars == {" ", "a"}
Whitespace == {" "}

StringsUpTo(n) == UNION {[1..m -> Chars] : m \in 0..n}

RECURSIVE lstrip(_)
lstrip(s) ==
    IF s # <<>> /\ Head(s) \in Whitespace THEN lstrip(Tail(s)) ELSE s

RECURSIVE rstrip(_, _)
rstrip(s, cs) ==
    IF s # <<>> /\ s[Len(s)] \in cs THEN rstrip(SubSeq(s, 1, Len(s) - 1), cs) ELSE s

\* str.strip()
strip(s) == rstrip(lstrip(s), Whitespace)

\* `not text.strip()` of line 46
IsBlankNoStrip(text) == text = <<>>
IsBlank(text) == strip(text) = <<>>

\* Python's s[:n]
SliceAll(s, n) == s
Slice(s, n) ==
    LET stop == IF n < 0 THEN Max(Len(s) + n, 0) ELSE Min(n, Len(s))
    IN  SubSeq(s, 1, stop)

(***************************************************************************)
(* The request body and what lines 34-44 read from it.                     *)
(***************************************************************************)
Field(t, v) == [tag |-> t, val |-> v]
AbsentField == Field("absent", <<>>)

Contents(n) ==
    {AbsentField, Field("nonstr", <<>>)} \cup {Field("str", s) : s \in StringsUpTo(n)}
ImageLists(n) ==
    {AbsentField} \cup {Field("list", [j \in 1..m |-> j]) : m \in 0..n}
AbsentPostId == Field("absent", "")
PostIdFields ==
    {AbsentPostId, Field("str", "post"), Field("str", "42")}

NonObjectBody(k) ==
    [kind |-> k, content |-> AbsentField, images |-> AbsentField, post_id |-> AbsentPostId]

Bodies(nc, ni) ==
    {NonObjectBody(k) : k \in {"unparsable", "falsy", "nonobject"}}
    \cup {[kind |-> "object", content |-> c, images |-> im, post_id |-> p] :
            c \in Contents(nc), im \in ImageLists(ni), p \in PostIdFields}

\* lines 34-37: get_json(force=True) or {}, and {} when parsing raises
data(r) ==
    IF body[r].kind \in {"unparsable", "falsy"}
    THEN NonObjectBody("object")
    ELSE body[r]

\* data.get raises AttributeError when the body is JSON but no object
IsMapping(d) == d.kind = "object"

\* line 41: data.get("content", "")
text(r) == IF data(r).content.tag = "absent" THEN Field("str", <<>>) ELSE data(r).content
\* line 42: data.get("images", [])
images(r) == IF data(r).images.tag = "absent" THEN <<>> ELSE data(r).images.val
\* line 44: str(data.get("post_id", "post"))
post_id(r) == IF data(r).post_id.tag = "absent" THEN "post" ELSE data(r).post_id.val

(***************************************************************************)
(* Temporary files.                                                        *)
(***************************************************************************)
NoPath == <<"none", "", 0>>
audio_path_unkeyed(r) == <<"audio", "post", 0>>
\* line 53
audio_path(r) == <<"audio", post_id(r), 0>>
\* line 65
img_path(r, i) == <<"img", post_id(r), i>>
\* line 89
video_path(r) == <<"video", post_id(r), 0>>
\* the file create_title_image(title, post_id, tmp_dir) returns, line 157: one
\* generated image; its name is taken to be keyed by the post identifier, like
\* the other temporary files
create_title_image(r) == <<"title", post_id(r), 0>>

exists(p) == p \in DOMAIN fs
WriteFile(f, p, r) == [q \in DOMAIN f \cup {p} |-> IF q = p THEN r ELSE f[q]]
RemoveFile(f, p) == [q \in DOMAIN f \ {p} |-> f[q]]

(***************************************************************************)
(* Responses.  A structured response is one the handler builds with        *)
(* jsonify; an exception that leaves make_video is answered by the         *)
(* platform with an unstructured 500.                                      *)
(***************************************************************************)
NoResponse == [status |-> 0, structured |-> FALSE, key |-> "", value |-> "", at |-> ""]

Return(r, status, key, value) ==
    /\ response' = [response EXCEPT ![r] =
            [status |-> status, structured |-> TRUE, key |-> key, value |-> value, at |-> pc[r]]]
    /\ pc' = [pc EXCEPT ![r] = "done"]

Crash(r) ==
    /\ response' = [response EXCEPT ![r] =
            [status |-> 500, structured |-> FALSE, key |-> "", value |-> "", at |-> pc[r]]]
    /\ pc' = [pc EXCEPT ![r] = "done"]

Goto(r, to) ==
    /\ pc' = [pc EXCEPT ![r] = to]
    /\ UNCHANGED response

(***************************************************************************)
(* make_video, lines 34-47: parse and validate.                            *)
(***************************************************************************)
Validate(r) ==
    /\ pc[r] = "recv"
    /\ IF ~IsMapping(data(r)) \/ text(r).tag # "str"
       THEN Crash(r)
       ELSE IF IsBlank(text(r).val)
            THEN Return(r, 400, "error", "No content provided")
            ELSE Goto(r, "tts")
    /\ UNCHANGED <<WP_BASE_URL, WP_USER, WP_APP_PASSWORD, MAX_IMAGES, body, fs,
                   image_files, idx, fetched, placeholders, clips, total_duration,
                   videoSrc, video_filename, uploadCalls, uploadOutcome, httpPosts,
                   opened, wp_url, cidx, delFailed, removed, touched>>

(***************************************************************************)
(* lines 52-55: gTTS(...).save(audio_path); an exception is not caught.    *)
(***************************************************************************)
Synthesize(r) ==
    /\ pc[r] = "tts"
    /\ \E ok \in BOOLEAN :
        IF ok
        THEN /\ fs' = WriteFile(fs, audio_path(r), r)
             /\ touched' = [touched EXCEPT ![r] = @ \cup {audio_path(r)}]
             /\ Goto(r, "images")
        ELSE /\ Crash(r)
             /\ UNCHANGED <<fs, touched>>
    /\ UNCHANGED <<WP_BASE_URL, WP_USER, WP_APP_PASSWORD, MAX_IMAGES, body,
                   image_files, idx, fetched, placeholders, clips, total_duration,
                   videoSrc, video_filename, uploadCalls, uploadOutcome, httpPosts,
                   opened, wp_url, cidx, delFailed, removed>>

(***************************************************************************)
(* lines 60-70: one iteration of the download loop.                        *)
(***************************************************************************)
ToFetch(r) == Slice(images(r), MAX_IMAGES)

Download(r) ==
    /\ pc[r] = "images"
    /\ images(r) # <<>>
    /\ idx[r] < Len(ToFetch(r))
    /\ LET i == idx[r]
           url == ToFetch(r)[i + 1]
           filename == img_path(r, i)
       IN  /\ idx' = [idx EXCEPT ![r] = i + 1]
           /\ \E ok \in BOOLEAN :
                /\ fetched' = [fetched EXCEPT ![r] = Append(@, [url |-> url, i |-> i, ok |-> ok])]
                /\ IF ok
                   THEN /\ fs' = WriteFile(fs, filename, r)
                        /\ image_files' = [image_files EXCEPT ![r] = Append(@, filename)]
                        /\ touched' = [touched EXCEPT ![r] = @ \cup {filename}]
                   ELSE UNCHANGED <<fs, image_files, touched>>
    /\ UNCHANGED <<WP_BASE_URL, WP_USER, WP_APP_PASSWORD, MAX_IMAGES, body, pc,
                   placeholders, clips, total_duration,
                   videoSrc, video_filename, uploadCalls, uploadOutcome, httpPosts,
                   opened, wp_url, cidx, delFailed, removed, response>>

(***************************************************************************)
(* lines 72-74: the placeholder fallback, once the loop has ended.         *)
(***************************************************************************)
NeedPlaceholderIfNoUrls(r) == images(r) = <<>>
\* `not image_files`
NeedPlaceholder(r) == image_files[r] = <<>>

Fallback(r) ==
    /\ pc[r] = "images"
    /\ images(r) = <<>> \/ idx[r] = Len(ToFetch(r))
    /\ IF NeedPlaceholder(r)
       THEN LET title_img == create_title_image(r)
            IN  /\ fs' = WriteFile(fs, title_img, r)
                /\ image_files' = [image_files EXCEPT ![r] = Append(@, title_img)]
                /\ placeholders' = [placeholders EXCEPT ![r] = @ + 1]
                /\ touched' = [touched EXCEPT ![r] = @ \cup {title_img}]
       ELSE UNCHANGED <<fs, image_files, placeholders, touched>>
    /\ Goto(r, "assemble")
    /\ UNCHANGED <<WP_BASE_URL, WP_USER, WP_APP_PASSWORD, MAX_IMAGES, body,
                   idx, fetched, clips, total_duration,
                   videoSrc, video_filename, uploadCalls, uploadOutcome, httpPosts,
                   opened, wp_url, cidx, delFailed, removed>>

(***************************************************************************)
(* lines 76-105: build the slideshow.  Durations are exact rationals       *)
(* <<numerator, denominator>>.                                             *)
(***************************************************************************)
Durations == 1..MaxDuration

PerSlideFloor(D, n) == <<D \div Max(1, n), 1>>
\* line 80: total_duration / max(1, len(image_files))
PerSlide(D, n) == <<D, Max(1, n)>>

SeqRange(s) == {s[j] : j \in 1..Len(s)}

\* AudioFileClip(audio_path) and ImageClip(img) find their files
Readable(r) ==
    /\ exists(audio_path(r))
    /\ \A img \in SeqRange(image_files[r]) : exists(img)

AssembleOk(r) ==
    /\ pc[r] = "assemble"
    /\ Readable(r)
    /\ \E D \in Durations :
        LET n == Len(image_files[r])
            per_slide == PerSlide(D, n)
        IN  /\ total_duration' = [total_duration EXCEPT ![r] = D]
            /\ clips' = [clips EXCEPT ![r] = [j \in 1..n |-> per_slide]]
    /\ videoSrc' = [videoSrc EXCEPT ![r] =
            {<<p, fs[p]>> : p \in {audio_path(r)} \cup SeqRange(image_files[r])}]
    /\ video_filename' = [video_filename EXCEPT ![r] = video_path(r)]
    /\ fs' = WriteFile(fs, video_path(r), r)
    /\ touched' = [touched EXCEPT ![r] =
            @ \cup {audio_path(r), video_path(r)} \cup SeqRange(image_files[r])]
    /\ Goto(r, "upload")
    /\ UNCHANGED <<WP_BASE_URL, WP_USER, WP_APP_PASSWORD, MAX_IMAGES, body,
                   image_files, idx, fetched, placeholders,
                   uploadCalls, uploadOutcome, httpPosts,
                   opened, wp_url, cidx, delFailed, removed>>

AssembleFailFallthrough(r) ==
    /\ pc[r] = "assemble"
    /\ Goto(r, "upload")
    /\ UNCHANGED <<WP_BASE_URL, WP_USER, WP_APP_PASSWORD, MAX_IMAGES, body, fs,
                   image_files, idx, fetched, placeholders, clips, total_duration,
                   videoSrc, video_filename, uploadCalls, uploadOutcome, httpPosts,
                   opened, wp_url, cidx, delFailed, removed, touched>>

\* lines 98-100: any exception of lines 78-97 (a file that is gone, the encoder)
AssembleFail(r) ==
    /\ pc[r] = "assemble"
    /\ Return(r, 500, "error", "Video creation failed")
    /\ UNCHANGED <<WP_BASE_URL, WP_USER, WP_APP_PASSWORD, MAX_IMAGES, body, fs,
                   image_files, idx, fetched, placeholders, clips, total_duration,
                   videoSrc, video_filename, uploadCalls, uploadOutcome, httpPosts,
                   opened, wp_url, cidx, delFailed, removed, touched>>

(***************************************************************************)
(* line 108 and upload_to_wordpress, lines 126-154.                        *)
(***************************************************************************)
UploadConfiguredNoPassword == WP_BASE_URL # <<>> /\ WP_USER # <<>>
\* line 131
UploadConfigured == WP_BASE_URL # <<>> /\ WP_USER # <<>> /\ WP_APP_PASSWORD # <<>>

\* how lines 144-154 can end once the file is open
PostOutcomes == {"post_raised", "url", "json_no_url", "not_json", "json_not_object"}

Upload(r) ==
    /\ pc[r] = "upload"
    /\ uploadCalls' = [uploadCalls EXCEPT ![r] = @ + 1]
    /\ IF ~UploadConfigured
       THEN /\ uploadOutcome' = [uploadOutcome EXCEPT ![r] = "skipped"]
            /\ wp_url' = [wp_url EXCEPT ![r] = ""]
            /\ Goto(r, "cleanup_audio")
            /\ UNCHANGED <<opened, httpPosts, touched>>
       ELSE IF ~exists(video_filename[r])
       THEN /\ uploadOutcome' = [uploadOutcome EXCEPT ![r] = "open_raised"]
            /\ Crash(r)
            /\ UNCHANGED <<opened, httpPosts, touched, wp_url>>
       ELSE /\ opened' = [opened EXCEPT ![r] = @ + 1]
            /\ httpPosts' = [httpPosts EXCEPT ![r] = @ + 1]
            /\ touched' = [touched EXCEPT ![r] = @ \cup {video_filename[r]}]
            /\ \E o \in PostOutcomes :
                /\ uploadOutcome' = [uploadOutcome EXCEPT ![r] = o]
                /\ IF o \in {"post_raised", "json_not_object"}
                   THEN Crash(r) /\ UNCHANGED wp_url
                   ELSE /\ wp_url' = [wp_url EXCEPT ![r] = IF o = "url" THEN "url" ELSE ""]
                        /\ Goto(r, "cleanup_audio")
    /\ UNCHANGED <<WP_BASE_URL, WP_USER, WP_APP_PASSWORD, MAX_IMAGES, body, fs,
                   image_files, idx, fetched, placeholders, clips, total_duration,
                   videoSrc, video_filename, cidx, delFailed, removed>>

(***************************************************************************)
(* lines 111-121: cleanup, one try block around all the deletions.         *)
(***************************************************************************)
\* `if os.path.exists(p): os.remove(p)` inside the try of line 112: an
\* exception of os.remove leaves the block through the except of line 120
RemoveIfExists(r, p, next) ==
    /\ touched' = [touched EXCEPT ![r] = @ \cup {p}]
    /\ IF exists(p)
       THEN \E ok \in BOOLEAN :
              IF ok
              THEN /\ fs' = RemoveFile(fs, p)
                   /\ removed' = [removed EXCEPT ![r] = @ \cup {p}]
                   /\ Goto(r, next)
                   /\ UNCHANGED delFailed
              ELSE /\ delFailed' = [delFailed EXCEPT ![r] = @ \cup {p}]
                   /\ Goto(r, "respond")
                   /\ UNCHANGED <<fs, removed>>
       ELSE /\ Goto(r, next)
            /\ UNCHANGED <<fs, removed, delFailed>>

CleanAudio(r) ==
    /\ pc[r] = "cleanup_audio"
    /\ RemoveIfExists(r, audio_path(r),
            IF image_files[r] = <<>> THEN "cleanup_video" ELSE "cleanup_images")
    /\ UNCHANGED <<WP_BASE_URL, WP_USER, WP_APP_PASSWORD, MAX_IMAGES, body,
                   image_files, idx, fetched, placeholders, clips, total_duration,
                   videoSrc, video_filename, uploadCalls, uploadOutcome, httpPosts,
                   opened, wp_url, cidx>>

CleanImage(r) ==
    /\ pc[r] = "cleanup_images"
    /\ cidx[r] < Len(image_files[r])
    /\ cidx' = [cidx EXCEPT ![r] = @ + 1]
    /\ RemoveIfExists(r, image_files[r][cidx[r] + 1],
            IF cidx[r] + 1 = Len(image_files[r]) THEN "cleanup_video" ELSE "cleanup_images")
    /\ UNCHANGED <<WP_BASE_URL, WP_USER, WP_APP_PASSWORD, MAX_IMAGES, body,
                   image_files, idx, fetched, placeholders, clips, total_duration,
                   videoSrc, video_filename, uploadCalls, uploadOutcome, httpPosts,
                   opened, wp_url>>

CleanVideo(r) ==
    /\ pc[r] = "cleanup_video"
    /\ RemoveIfExists(r, video_filename[r], "respond")
    /\ UNCHANGED <<WP_BASE_URL, WP_USER, WP_APP_PASSWORD, MAX_IMAGES, body,
                   image_files, idx, fetched, placeholders, clips, total_duration,
                   videoSrc, video_filename, uploadCalls, uploadOutcome, httpPosts,
                   opened, wp_url, cidx>>

\* line 123
Respond(r) ==
    /\ pc[r] = "respond"
    /\ Return(r, 200, "video_url", wp_url[r])
    /\ UNCHANGED <<WP_BASE_URL, WP_USER, WP_APP_PASSWORD, MAX_IMAGES, body, fs,
                   image_files, idx, fetched, placeholders, clips, total_duration,
                   videoSrc, video_filename, uploadCalls, uploadOutcome, httpPosts,
                   opened, wp_url, cidx, delFailed, removed, touched>>

(***************************************************************************)
(* Initial states and specifications.                                      *)
(***************************************************************************)
\* the values os.environ can hold for WP_BASE_URL, line 15
BaseUrlEnv == {<<>>, <<"/">>, <<"h">>, <<"h", "/">>}
CredentialEnv == {<<>>, <<"u">>}

InitLocals ==
    /\ fs = <<>>
    /\ image_files = [r \in Reqs |-> <<>>]
    /\ idx = [r \in Reqs |-> 0]
    /\ fetched = [r \in Reqs |-> <<>>]
    /\ placeholders = [r \in Reqs |-> 0]
    /\ clips = [r \in Reqs |-> <<>>]
    /\ total_duration = [r \in Reqs |-> 0]
    /\ videoSrc = [r \in Reqs |-> {}]
    /\ video_filename = [r \in Reqs |-> NoPath]
    /\ uploadCalls = [r \in Reqs |-> 0]
    /\ uploadOutcome = [r \in Reqs |-> "none"]
    /\ httpPosts = [r \in Reqs |-> 0]
    /\ opened = [r \in Reqs |-> 0]
    /\ wp_url = [r \in Reqs |-> ""]
    /\ cidx = [r \in Reqs |-> 0]
    /\ delFailed = [r \in Reqs |-> {}]
    /\ removed = [r \in Reqs |-> {}]
    /\ touched = [r \in Reqs |-> {}]
    /\ response = [r \in Reqs |-> NoResponse]

\* one request, any configuration
Init ==
    /\ WP_BASE_URL \in {rstrip(u, {"/"}) : u \in BaseUrlEnv}
    /\ WP_USER \in CredentialEnv
    /\ WP_APP_PASSWORD \in CredentialEnv
    /\ MAX_IMAGES \in 0..MaxCap
    /\ body \in {[r \in Reqs |-> IF r = 1 THEN b ELSE NonObjectBody("falsy")] :
                    b \in Bodies(MaxContentLen, MaxUrls)}
    /\ pc = [r \in Reqs |-> IF r = 1 THEN "recv" ELSE "off"]
    /\ InitLocals

Step(r) ==
    \/ Validate(r)
    \/ Synthesize(r)
    \/ Download(r)
    \/ Fallback(r)
    \/ AssembleOk(r)
    \/ AssembleFail(r)
    \/ Upload(r)
    \/ CleanAudio(r)
    \/ CleanImage(r)
    \/ CleanVideo(r)
    \/ Respond(r)

Next == \E r \in Reqs : Step(r)

Spec == Init /\ [][Next]_vars

\* two requests the platform dispatches at the same time: request 1 is
\* {"content": "a", "images": [url], "post_id": "42"}, request 2 varies
ConcBodies(lists, ids) ==
    {[kind |-> "object", content |-> Field("str", <<"a">>), images |-> Field("list", im),
      post_id |-> p] : im \in lists, p \in ids}

InitConc ==
    /\ WP_BASE_URL = rstrip(<<"h", "/">>, {"/"})
    /\ WP_USER = <<"u">>
    /\ WP_APP_PASSWORD \in CredentialEnv
    /\ MAX_IMAGES = ConcMaxUrls
    /\ body \in {[r \in Reqs |-> IF r = 1 THEN b1 ELSE b2] :
                    b1 \in ConcBodies({<<1>>}, {Field("str", "42")}),
                    b2 \in ConcBodies({[j \in 1..m |-> j] : m \in 0..ConcMaxUrls},
                                      {AbsentPostId, Field("str", "42")})}
    /\ pc = [r \in Reqs |-> "recv"]
    /\ InitLocals

SpecConc == InitConc /\ [][Next]_vars

(***************************************************************************)
(* Vocabulary of the properties.                                           *)
(***************************************************************************)
\* the stage request r reached last
Stage(r) == IF pc[r] = "done" THEN response[r].at ELSE pc[r]

Rank(p) ==
    CASE p \in {"off", ""} -> 0
      [] p = "recv" -> 1
      [] p = "tts" -> 2
      [] p = "images" -> 3
      [] p = "assemble" -> 4
      [] p = "upload" -> 5
      [] p \in {"cleanup_audio", "cleanup_images", "cleanup_video"} -> 6
      [] p = "respond" -> 7
      [] p = "done" -> 8

Completed(r) == pc[r] = "done"
Answered(r, status) ==
    Completed(r) /\ response[r].structured /\ response[r].status = status

\* the temporary files of request r: audio, images (downloaded or placeholder), video
TempFiles(r) ==
    {audio_path(r), video_path(r)} \cup SeqRange(image_files[r])

OnDisk(r) == TempFiles(r) \cap DOMAIN fs

\* C1: after a request that ended 200, or 500 at video assembly, and in which
\* no deletion failed, none of its temporary files (audio, images, video) is
\* on disk any more.
C1_NoTempFilesAfterRequest ==
    \A r \in Reqs :
        /\ Answered(r, 200) \/ (Answered(r, 500) /\ response[r].at = "assemble")
        /\ delFailed[r] = {}
        => OnDisk(r) = {}

\* C2: once the upload step was entered and the request is over, the video
\* file is gone, whatever the upload did (no deletion having failed).
C2_VideoDeletedAfterUpload ==
    \A r \in Reqs :
        (Completed(r) /\ uploadCalls[r] > 0 /\ delFailed[r] = {})
            => ~exists(video_filename[r])

\* C3: after the cleanup step every temporary file whose own deletion did not
\* fail is gone, and the answer is 200 with a video_url field.
C3_DeletionsIndependent ==
    \A r \in Reqs :
        (Completed(r) /\ response[r].at = "respond")
            => /\ Answered(r, 200) /\ response[r].key = "video_url"
               /\ \A p \in TempFiles(r) : p \notin delFailed[r] => ~exists(p)

\* the downloads of request r that succeeded, in order
Succeeded(r) == SelectSeq(fetched[r], LAMBDA f : f.ok)

\* request r has left the image stage: its list went to the assembler
PastImages(r) == Rank(Stage(r)) >= 4

\* C4: the list handed to the assembler is never empty: with no successful
\* download it is exactly the one placeholder, generated once; otherwise it
\* is exactly the downloaded files, in order, and no placeholder was generated.
C4_ImagesNeverEmpty ==
    \A r \in Reqs :
        PastImages(r) =>
            /\ image_files[r] # <<>>
            /\ IF Succeeded(r) = <<>>
               THEN /\ image_files[r] = <<create_title_image(r)>>
                    /\ placeholders[r] = 1
               ELSE /\ image_files[r] =
                           [j \in 1..Len(Succeeded(r)) |-> img_path(r, Succeeded(r)[j].i)]
                    /\ placeholders[r] = 0

\* URLs were supplied, every download was attempted and failed, and the
\* assembler gets the placeholder alone
C4_Witness ==
    /\ pc[1] = "assemble"
    /\ Len(fetched[1]) = 2
    /\ Succeeded(1) = <<>>
    /\ image_files[1] = <<create_title_image(1)>>

\* C5: the downloads attempted are those of the first URLs of the list, in
\* list order, each once, never more than MAX_IMAGES of them; when the loop
\* is over exactly min(MAX_IMAGES, len(images)) were attempted, whatever failed.
C5_AtMostMaxImages ==
    \A r \in Reqs :
        /\ Len(fetched[r]) <= MAX_IMAGES
        /\ Len(fetched[r]) <= Len(body[r].images.val)
        /\ \A j \in 1..Len(fetched[r]) :
              /\ fetched[r][j].url = body[r].images.val[j]
              /\ fetched[r][j].i = j - 1
        /\ PastImages(r) => Len(fetched[r]) = Min(MAX_IMAGES, Len(body[r].images.val))

\* a list longer than MAX_IMAGES = 2, the first download failed
C5_Witness ==
    /\ PastImages(1)
    /\ MAX_IMAGES = 2
    /\ Len(images(1)) > MAX_IMAGES
    /\ Len(fetched[1]) = 2
    /\ ~fetched[1][1].ok

MissingConfig == WP_BASE_URL = <<>> \/ WP_USER = <<>> \/ WP_APP_PASSWORD = <<>>

\* C6: with one of the three settings empty, the upload step ends with the
\* empty URL, without an exception, an HTTP request or an open file; the
\* request goes on to cleanup and answers 200 with video_url = "".
C6_MissingConfigSkipsUpload ==
    \A r \in Reqs :
        (MissingConfig /\ uploadCalls[r] > 0) =>
            /\ uploadOutcome[r] = "skipped"
            /\ wp_url[r] = ""
            /\ httpPosts[r] = 0
            /\ opened[r] = 0
            /\ Rank(Stage(r)) >= 6
            /\ Completed(r) =>
                  /\ Answered(r, 200)
                  /\ response[r].at = "respond"
                  /\ response[r].key = "video_url"
                  /\ response[r].value = ""

\* only the password is missing, the request is over and cleanup removed files
C6_Witness ==
    /\ WP_BASE_URL # <<>> /\ WP_USER # <<>> /\ WP_APP_PASSWORD = <<>>
    /\ Answered(1, 200)
    /\ uploadCalls[1] = 1
    /\ removed[1] # {}

\* the content of the body is absent, empty or whitespace only
ContentMissing(r) ==
    \/ body[r].kind \in {"unparsable", "falsy"}
    \/ /\ body[r].kind = "object"
       /\ \/ body[r].content.tag = "absent"
          \/ /\ body[r].content.tag = "str"
             /\ \A j \in 1..Len(body[r].content.val) : body[r].content.val[j] \in Whitespace

RatEq(a, b) == a[1] * b[2] = b[1] * a[2]

RECURSIVE RatSum(_)
RatSum(s) ==
    IF s = <<>> THEN <<0, 1>>
    ELSE LET t == RatSum(Tail(s))
         IN  <<Head(s)[1] * t[2] + t[1] * Head(s)[2], Head(s)[2] * t[2]>>

\* C8: once the video is assembled from N images and audio of duration D,
\* there are N >= 1 slides, each of duration D / N, and the durations add up
\* to D.
C8_EvenSlides ==
    \A r \in Reqs :
        video_filename[r] # NoPath =>
            LET D == total_duration[r]
                N == Len(image_files[r])
            IN  /\ N >= 1
                /\ Len(clips[r]) = N
                /\ \A j \in 1..N : clips[r][j][2] > 0 /\ RatEq(clips[r][j], <<D, N>>)
                /\ RatEq(RatSum(clips[r]), <<D, 1>>)

\* two slides share an audio of duration 1
C8_Witness ==
    /\ video_filename[1] # NoPath
    /\ total_duration[1] = 1
    /\ Len(clips[1]) = 2

\* C9: a request never moves to an earlier stage; upload_to_wordpress is
\* called at most once and only with the video assembled; a structured
\* response given before the upload stage is the 400 of validation or the
\* 500 of assembly.
C9_StageOrder ==
    [][\A r \in Reqs :
        /\ Rank(pc'[r]) >= Rank(pc[r])
        /\ Rank(Stage(r))' >= Rank(Stage(r))
        /\ uploadCalls'[r] # uploadCalls[r] =>
              /\ uploadCalls[r] = 0 /\ uploadCalls'[r] = 1
              /\ pc[r] = "upload"
              /\ video_filename[r] # NoPath
        /\ (response'[r] # response[r] /\ response'[r].structured /\ uploadCalls[r] = 0) =>
              \/ response'[r].status = 400 /\ pc[r] = "recv"
              \/ response'[r].status = 500 /\ pc[r] = "assemble"]_vars

\* a request that went through every stage
C9_Witness ==
    /\ Answered(1, 200)
    /\ uploadCalls[1] = 1
    /\ httpPosts[1] = 1
    /\ response[1].value = "url"

\* the files the claim names
Named(p) == p[1] \in {"audio", "img", "video"}

\* C10: two concurrent requests with different post identifiers touch
\* disjoint sets of audio, image and video files, each file named by the
\* identifier of the request touching it and holding what that request
\* wrote, and each video is built from files its own request wrote.
C10_DistinctIdsIsolated ==
    post_id(1) # post_id(2) =>
        /\ \A p \in touched[1] \cap touched[2] : ~Named(p)
        /\ \A r \in Reqs :
              /\ \A p \in touched[r] : Named(p) => p[2] = post_id(r)
              /\ \A p \in DOMAIN fs : (Named(p) /\ p[2] = post_id(r)) => fs[p] = r
              /\ \A v \in videoSrc[r] : Named(v[1]) => v[2] = r

\* both requests, with different identifiers, built their videos and cleaned up
C10_Witness ==
    /\ post_id(1) # post_id(2)
    /\ \A r \in Reqs :
          /\ Answered(r, 200)
          /\ \E v \in videoSrc[r] : v[1][1] = "img"
          /\ video_path(r) \in removed[r]

\* C10, second half: with the same identifier, a request never builds on a
\* file the other wrote, and never finds a file of its own gone at assembly.
\* This is violated: with identical identifiers the requests interfere.
C10_SameIdNoInterference ==
    post_id(1) = post_id(2) =>
        \A r \in Reqs :
            /\ \A v \in videoSrc[r] : v[2] = r
            /\ pc[r] = "assemble" => Readable(r)

====
